---- MODULE Spec2Model ----
(***************************************************************************)
(* Merit order dispatch (simulate) and debt amortization (roi) of esg.py.  *)
(*                                                                         *)
(* A data frame is a sequence of rows; row k of the sequence carries the   *)
(* pandas label k - 1 (the default RangeIndex of read_csv).  A cell that   *)
(* pandas holds as NaN is named in the row's field na; its value field is  *)
(* then a placeholder that nothing may read as a number.  Money in roi is  *)
(* an exact fraction [n, d] in lowest terms.                               *)
(***************************************************************************)
EXTENDS Integers, Sequences, FiniteSets

VARIABLES
    supply,      \* simulate: the supply argument (rows sorted by mc)
    load,        \* simulate: the load argument
    offset,      \* simulate: the offset argument
    dispatch,    \* simulate: the local frame dispatch
    marginal,    \* simulate: the local marginal (a 0-based label)
    cp,          \* simulate: the clearing price
    portfolios,  \* simulate: the frame that is returned
    pc,          \* simulate: position in the function body
    f,           \* roi: the frame f, one row per day of the portfolio
    overhead,    \* roi: the overhead argument
    r,           \* roi: the r argument
    owed,        \* roi: the running balance
    day,         \* roi: the loop variable
    rpc          \* roi: position in the function body

vars == <<supply, load, offset, dispatch, marginal, cp, portfolios, pc,
          f, overhead, r, owed, day, rpc>>

simVars == <<supply, load, offset, dispatch, marginal, cp, portfolios, pc>>
roiVars == <<f, overhead, r, owed, day, rpc>>

-----------------------------------------------------------------------------
(* Bounds of the model. *)

MaxUnits == 3
Overload == 1
MaxDays == 7
MaxOverhead == 2

Capacities == {1, 2}
MarginalCosts == {-1, 2}
Offsets == {0, 1}
StackNames == {"Big_Gas", "East_Bay", "Unlisted"}

-----------------------------------------------------------------------------
(* Configuration. *)

hrly_costs ==
    [n \in {"Bay_Views", "Beachfront", "Big_Coal", "Big_Gas", "East_Bay",
            "Fossil_Light", "Old_Timers"} |->
        CASE n = "Bay_Views" -> -5500
          [] n = "Beachfront" -> -6750
          [] n = "Big_Coal" -> -5000
          [] n = "Big_Gas" -> -2000
          [] n = "East_Bay" -> -4000
          [] n = "Fossil_Light" -> -9250
          [] n = "Old_Timers" -> -11250]

-----------------------------------------------------------------------------
(* Supply stacks: sorted ascending by mc, cumulative the prefix sums of mw. *)

RECURSIVE PrefixSum(_, _)
PrefixSum(caps, k) == IF k = 0 THEN 0 ELSE PrefixSum(caps, k - 1) + caps[k]

MakeStack(names, caps, mcs) ==
    [k \in 1..Len(caps) |->
        [portfolio_name |-> names[k], mw |-> caps[k], mc |-> mcs[k],
         cumulative |-> PrefixSum(caps, k)]]

SortedAscending(mcs) == \A i, j \in 1..Len(mcs) : i <= j => mcs[i] <= mcs[j]

ValidStacks ==
    UNION { { MakeStack(names, caps, mcs) :
                names \in [1..n -> StackNames],
                caps \in [1..n -> Capacities],
                mcs \in {m \in [1..n -> MarginalCosts] : SortedAscending(m)} }
            : n \in 1..MaxUnits }

TotalCapacity(s) == s[Len(s)].cumulative

-----------------------------------------------------------------------------
(* simulate, statement by statement. *)

Labels(d) == 0..(Len(d) - 1)
Row(d, label) == d[label + 1]

\* dispatch = supply.copy() and the four columns added to it
NewDispatch(s) ==
    [k \in 1..Len(s) |->
        [portfolio_name |-> s[k].portfolio_name, mw |-> s[k].mw, mc |-> s[k].mc,
         cumulative |-> s[k].cumulative,
         inframarginal |-> FALSE, marginal |-> FALSE, gen |-> 0, revenue |-> 0,
         na |-> {}]]

\* len(dispatch.loc[dispatch['cumulative'] < load])
\* (variant: counts cumulative <= load)
MarginalIndexInclusive(d, l) == Cardinality({k \in 1..Len(d) : d[k].cumulative <= l})
MarginalIndex(d, l) == Cardinality({k \in 1..Len(d) : d[k].cumulative < l})

\* dispatch.loc[:marginal - 1, 'inframarginal'] = True  (a label slice, end included)
\* (variant: the slice taken through marginal itself)
FlagInframarginalThrough(d, m) ==
    [k \in 1..Len(d) |->
        IF k - 1 <= m THEN [d[k] EXCEPT !.inframarginal = TRUE] ELSE d[k]]
FlagInframarginal(d, m) ==
    [k \in 1..Len(d) |->
        IF k - 1 <= m - 1 THEN [d[k] EXCEPT !.inframarginal = TRUE] ELSE d[k]]

\* The row that setting a cell at a missing label appends: every other column NaN.
EnlargedRow ==
    [portfolio_name |-> "", mw |-> 0, mc |-> 0, cumulative |-> 0,
     inframarginal |-> FALSE, marginal |-> TRUE, gen |-> 0, revenue |-> 0,
     na |-> {"portfolio_name", "mw", "mc", "cumulative", "inframarginal",
             "gen", "revenue"}]

\* dispatch.loc[marginal, 'marginal'] = True
FlagMarginal(d, m) ==
    IF m \in Labels(d)
    THEN [d EXCEPT ![m + 1].marginal = TRUE]
    ELSE Append(d, EnlargedRow)

\* A boolean mask that holds a NaN cannot index: pandas raises ValueError
\* ("Cannot mask with non-boolean array containing NA / NaN values").
MaskHasNaN(d, col) == \E k \in 1..Len(d) : col \in d[k].na

\* lines 107-108: full output below the margin, the residual at the margin
\* (variants: the margin given cumulative - load; line 107 left out)
UpdateGenNoResidual(d, l) ==
    [k \in 1..Len(d) |->
        IF d[k].marginal THEN [d[k] EXCEPT !.gen = d[k].cumulative - l]
        ELSE IF d[k].inframarginal THEN [d[k] EXCEPT !.gen = d[k].mw]
        ELSE d[k]]
UpdateGenMarginalOnly(d, l) ==
    [k \in 1..Len(d) |->
        IF d[k].marginal THEN [d[k] EXCEPT !.gen = d[k].mw - (d[k].cumulative - l)]
        ELSE d[k]]
UpdateGen(d, l) ==
    [k \in 1..Len(d) |->
        IF d[k].marginal THEN [d[k] EXCEPT !.gen = d[k].mw - (d[k].cumulative - l)]
        ELSE IF d[k].inframarginal THEN [d[k] EXCEPT !.gen = d[k].mw]
        ELSE d[k]]

\* cp = dispatch.loc[marginal]['mc'] + offset
ClearingPrice(d, m, off) == Row(d, m).mc + off

\* dispatch['revenue'] = dispatch['gen'] * (cp - dispatch['mc'])
Revenue(d, price) ==
    [k \in 1..Len(d) |-> [d[k] EXCEPT !.revenue = d[k].gen * (price - d[k].mc)]]

RECURSIVE SumOver(_, _, _, _)
SumOver(d, name, col, k) ==
    IF k = 0 THEN 0
    ELSE SumOver(d, name, col, k - 1)
         + (IF d[k].portfolio_name = name THEN d[k][col] ELSE 0)

PortfolioNames(d) == {d[k].portfolio_name : k \in 1..Len(d)}

\* lines 117-123: groupby sum, the cost mapped from hrly_costs (NaN where the
\* name has no entry), profit = revenue + cost (NaN where cost is NaN)
Aggregate(d) ==
    [n \in PortfolioNames(d) |->
        LET rev == SumOver(d, n, "revenue", Len(d)) IN
        IF n \in DOMAIN hrly_costs
        THEN [portfolio_name |-> n, revenue |-> rev, cost |-> hrly_costs[n],
              profit |-> rev + hrly_costs[n], na |-> {}]
        ELSE [portfolio_name |-> n, revenue |-> rev, cost |-> 0, profit |-> 0,
              na |-> {"cost", "profit"}]]

\* lines 83-114 as one function of the arguments, for a load the stack can serve
DispatchOf(s, l, off) ==
    LET d0 == NewDispatch(s)
        m == MarginalIndex(d0, l)
        d1 == UpdateGen(FlagMarginal(FlagInframarginal(d0, m), m), l)
    IN Revenue(d1, ClearingPrice(d1, m, off))

NoFrame == <<>>

SimInit ==
    /\ supply \in ValidStacks
    /\ load \in 0..(TotalCapacity(supply) + Overload)
    /\ offset \in Offsets
    /\ dispatch = NoFrame
    /\ marginal = 0
    /\ cp = 0
    /\ portfolios = NoFrame
    /\ pc = "flag"

\* lines 83-104
Flag ==
    /\ pc = "flag"
    /\ LET d0 == NewDispatch(supply)
           m == MarginalIndex(d0, load)
       IN /\ marginal' = m
          /\ dispatch' = FlagMarginal(FlagInframarginal(d0, m), m)
    /\ pc' = "gen"
    /\ UNCHANGED <<supply, load, offset, cp, portfolios>>

\* lines 107-108
Generate ==
    /\ pc = "gen"
    /\ ~MaskHasNaN(dispatch, "inframarginal")
    /\ dispatch' = UpdateGen(dispatch, load)
    /\ pc' = "price"
    /\ UNCHANGED <<supply, load, offset, marginal, cp, portfolios>>

\* line 107 on a frame whose inframarginal column holds a NaN
GenerateRaises ==
    /\ pc = "gen"
    /\ MaskHasNaN(dispatch, "inframarginal")
    /\ pc' = "ValueError"
    /\ UNCHANGED <<supply, load, offset, dispatch, marginal, cp, portfolios>>

\* lines 111-114
Price ==
    /\ pc = "price"
    /\ cp' = ClearingPrice(dispatch, marginal, offset)
    /\ dispatch' = Revenue(dispatch, cp')
    /\ pc' = "aggregate"
    /\ UNCHANGED <<supply, load, offset, marginal, portfolios>>

\* lines 117-125
Return ==
    /\ pc = "aggregate"
    /\ portfolios' = Aggregate(dispatch)
    /\ pc' = "done"
    /\ UNCHANGED <<supply, load, offset, dispatch, marginal, cp>>

-----------------------------------------------------------------------------
(* Exact fractions for the balance of roi. *)

RECURSIVE Gcd(_, _)
Gcd(a, b) == IF b = 0 THEN a ELSE Gcd(b, a % b)

Abs(x) == IF x < 0 THEN -x ELSE x

Frac(n, d) == LET g == Gcd(Abs(n), d) IN [n |-> n \div g, d |-> d \div g]
RInt(i) == [n |-> i, d |-> 1]
RAdd(a, b) == Frac(a.n * b.d + b.n * a.d, a.d * b.d)
RSub(a, b) == Frac(a.n * b.d - b.n * a.d, a.d * b.d)
RMul(a, b) == Frac(a.n * b.n, a.d * b.d)
RLt(a, b) == a.n * b.d < b.n * a.d
RLe(a, b) == a.n * b.d <= b.n * a.d
Zero == RInt(0)
One == RInt(1)

-----------------------------------------------------------------------------
(* roi, one loop iteration at a time. *)

DefaultOverhead == 225000
DefaultRate == Frac(1, 20)
FirstDay == 1
StopDay == 7

Inflows == {-2, 0, 3}
Rates == {Zero, Frac(1, 2)}

\* lines 191-199: one row per day of the portfolio, the three new columns None
NewLedger(profits) ==
    [k \in 1..Len(profits) |->
        [day |-> k, profit |-> profits[k], owed |-> Zero, payment |-> Zero,
         cash_flow |-> Zero, na |-> {"owed", "payment", "cash_flow"}]]

\* f['day'] == day
RowsOfDay(ledger, d) == {k \in 1..Len(ledger) : ledger[k].day = d}

\* .iloc[0] of the selection
FirstOf(rows) == CHOOSE k \in rows : \A j \in rows : k <= j

\* owed *= (1 + r)
\* (variant: owed *= r)
AccrueRateOnly(balance, rate) == RMul(balance, rate)
Accrue(balance, rate) == RMul(balance, RAdd(One, rate))

\* lines 216-255: what the day does with the inflow
\* (variants: inflow <= owed tested before inflow < 0; the third case
\* keeping the whole inflow as cash flow)
PayWithinFirst(inflow, balance) ==
    IF RLe(inflow, balance)
    THEN [payment |-> inflow, cash_flow |-> Zero, owed |-> RSub(balance, inflow)]
    ELSE IF RLt(inflow, Zero)
    THEN [payment |-> Zero, cash_flow |-> inflow, owed |-> RSub(balance, inflow)]
    ELSE IF RLt(Zero, balance)
    THEN [payment |-> balance, cash_flow |-> RSub(inflow, balance), owed |-> Zero]
    ELSE [payment |-> Zero, cash_flow |-> inflow, owed |-> balance]
PayKeepsInflow(inflow, balance) ==
    IF RLt(inflow, Zero)
    THEN [payment |-> Zero, cash_flow |-> inflow, owed |-> RSub(balance, inflow)]
    ELSE IF RLe(inflow, balance)
    THEN [payment |-> inflow, cash_flow |-> Zero, owed |-> RSub(balance, inflow)]
    ELSE IF RLt(Zero, balance)
    THEN [payment |-> balance, cash_flow |-> inflow, owed |-> Zero]
    ELSE [payment |-> Zero, cash_flow |-> inflow, owed |-> balance]
Pay(inflow, balance) ==
    IF RLt(inflow, Zero)
    THEN [payment |-> Zero, cash_flow |-> inflow, owed |-> RSub(balance, inflow)]
    ELSE IF RLe(inflow, balance)
    THEN [payment |-> inflow, cash_flow |-> Zero, owed |-> RSub(balance, inflow)]
    ELSE IF RLt(Zero, balance)
    THEN [payment |-> balance, cash_flow |-> RSub(inflow, balance), owed |-> Zero]
    ELSE [payment |-> Zero, cash_flow |-> inflow, owed |-> balance]

\* f.loc[f['day'] == day, col] = value, for the three columns
Record(ledger, rows, begin, p) ==
    [k \in 1..Len(ledger) |->
        IF k \in rows
        THEN [ledger[k] EXCEPT !.owed = begin, !.payment = p.payment,
                               !.cash_flow = p.cash_flow, !.na = {}]
        ELSE ledger[k]]

RoiInit ==
    /\ \/ /\ \E n \in 1..MaxDays : f \in {NewLedger(p) : p \in [1..n -> Inflows]}
          /\ overhead \in 0..MaxOverhead
          /\ r \in Rates
       \/ /\ f = NewLedger(<<hrly_costs["Fossil_Light"]>>)
          /\ overhead = DefaultOverhead
          /\ r = DefaultRate
    /\ owed = RInt(overhead)
    /\ day = FirstDay
    /\ rpc = "loop"

\* lines 204-255, a day that has a row
RoiDay ==
    /\ rpc = "loop"
    /\ day < StopDay
    /\ RowsOfDay(f, day) # {}
    /\ LET begin == Accrue(owed, r)
           rows == RowsOfDay(f, day)
           inflow == RInt(f[FirstOf(rows)].profit)
           p == Pay(inflow, begin)
       IN /\ f' = Record(f, rows, begin, p)
          /\ owed' = p.owed
    /\ day' = day + 1
    /\ UNCHANGED <<overhead, r, rpc>>

\* lines 207-213, a day that has no row: .iloc[0] of an empty selection
RoiDayMissing ==
    /\ rpc = "loop"
    /\ day < StopDay
    /\ RowsOfDay(f, day) = {}
    /\ owed' = Accrue(owed, r)
    /\ rpc' = "IndexError"
    /\ UNCHANGED <<f, overhead, r, day>>

\* line 257
RoiReturn ==
    /\ rpc = "loop"
    /\ day = StopDay
    /\ rpc' = "done"
    /\ UNCHANGED <<f, overhead, r, owed, day>>

SimIdle ==
    /\ supply = NoFrame
    /\ load = 0
    /\ offset = 0
    /\ dispatch = NoFrame
    /\ marginal = 0
    /\ cp = 0
    /\ portfolios = NoFrame
    /\ pc = "idle"

RoiIdle ==
    /\ f = <<>>
    /\ overhead = 0
    /\ r = Zero
    /\ owed = Zero
    /\ day = 0
    /\ rpc = "idle"

Init == SimInit /\ RoiIdle

Next ==
    \/ Flag /\ UNCHANGED roiVars
    \/ Generate /\ UNCHANGED roiVars
    \/ GenerateRaises /\ UNCHANGED roiVars
    \/ Price /\ UNCHANGED roiVars
    \/ Return /\ UNCHANGED roiVars

Spec == Init /\ [][Next]_vars

InitRoi == SimIdle /\ RoiInit

NextRoi ==
    \/ RoiDay /\ UNCHANGED simVars
    \/ RoiDayMissing /\ UNCHANGED simVars
    \/ RoiReturn /\ UNCHANGED simVars

SpecRoi == InitRoi /\ [][NextRoi]_vars

-----------------------------------------------------------------------------
(* Properties of simulate. *)

WithinCapacity == load <= TotalCapacity(supply)
Generated == pc \in {"price", "aggregate", "done"}

RECURSIVE SumGen(_, _)
SumGen(d, k) == IF k = 0 THEN 0 ELSE SumGen(d, k - 1) + d[k].gen

MarginalRows(d) == {k \in 1..Len(d) : d[k].marginal}
InframarginalRows(d) == {k \in 1..Len(d) : d[k].inframarginal}

\* C1: for a load within the total capacity of the stack, the generation
\* that simulate assigns, summed over all units, equals the load.
C1_GenerationMeetsLoad ==
    (Generated /\ WithinCapacity) => SumGen(dispatch, Len(dispatch)) = load

\* A returned run that splits the load: full units below the margin and a
\* marginal unit that runs at part of its capacity.
C1_Witness ==
    /\ pc = "done"
    /\ WithinCapacity
    /\ marginal >= 1
    /\ Row(dispatch, marginal).gen > 0
    /\ Row(dispatch, marginal).gen < Row(dispatch, marginal).mw

\* C2: a load above the total capacity ends in an insufficient-capacity
\* error: no row is added beyond the stack, no marginal unit is read at the
\* label equal to the stack length, and no portfolio result is returned.
C2_OverloadRejected ==
    ~WithinCapacity =>
        /\ dispatch # NoFrame => Len(dispatch) <= Len(supply)
        /\ ~(pc \in {"aggregate", "done"} /\ marginal = Len(supply))
        /\ pc # "done"
        /\ pc \in {"flag", "gen", "price", "aggregate", "InsufficientCapacityError"}

\* C3: for a load in [0, total capacity] exactly one unit is flagged
\* marginal, it is the first unit whose cumulative capacity is >= load, the
\* inframarginal units are exactly the units before it, and at load 0 the
\* marginal unit is the first of the stack and none is inframarginal.
C3_OneMarginalUnit ==
    (pc # "flag" /\ WithinCapacity) =>
        /\ Cardinality(MarginalRows(dispatch)) = 1
        /\ \A k \in MarginalRows(dispatch) :
              /\ dispatch[k].cumulative >= load
              /\ \A j \in 1..(k - 1) : dispatch[j].cumulative < load
              /\ InframarginalRows(dispatch) = 1..(k - 1)
        /\ load = 0 => (MarginalRows(dispatch) = {1}
                        /\ InframarginalRows(dispatch) = {})

\* A load that exactly fills the units up to the marginal one, which is not
\* the last of the stack, with at least one unit below the margin.
C3_Witness ==
    /\ pc = "done"
    /\ WithinCapacity
    /\ marginal >= 1
    /\ marginal + 1 < Len(supply)
    /\ Row(dispatch, marginal).cumulative = load

\* a cell of the profit column equal to another plus a shift, as floats
\* compare: a NaN equals nothing
ProfitShifted(row, base, shift) ==
    /\ "profit" \notin row.na
    /\ "profit" \notin base.na
    /\ row.profit = base.profit + shift

\* C6: with a load the stack can serve, every unit's revenue at the offset
\* is its revenue at offset 0 plus its generation times the offset, the
\* generation does not depend on the offset, and every portfolio's profit
\* is its profit at offset 0 plus the offset times its units' generation.
C6_OffsetShiftsProfit ==
    (pc = "done" /\ WithinCapacity) =>
        LET base == DispatchOf(supply, load, 0)
            basePortfolios == Aggregate(base)
        IN /\ \A k \in 1..Len(dispatch) :
                 /\ dispatch[k].gen = base[k].gen
                 /\ dispatch[k].revenue = base[k].revenue + dispatch[k].gen * offset
           /\ \A n \in DOMAIN portfolios :
                 ProfitShifted(portfolios[n], basePortfolios[n],
                               offset * SumOver(dispatch, n, "gen", Len(dispatch)))

\* C7: for loads load <= load2 within the total capacity, no unit generates
\* less at load2 than at load.
C7_MonotonicInLoad ==
    (pc = "done" /\ WithinCapacity) =>
        \A load2 \in load..TotalCapacity(supply) :
            LET later == DispatchOf(supply, load2, offset)
            IN \A k \in 1..Len(dispatch) : later[k].gen >= dispatch[k].gen

\* A returned run whose marginal unit is part loaded and which a larger load
\* moves beyond, to a later marginal unit.
C7_Witness ==
    /\ pc = "done"
    /\ load > 0
    /\ load + 2 <= TotalCapacity(supply)
    /\ Row(dispatch, marginal).gen < Row(dispatch, marginal).mw
    /\ MarginalIndex(supply, load + 2) > marginal

\* C8: a portfolio of the stack with no entry in the hourly cost mapping
\* makes the aggregation fail: no summary row is returned for it.
C8_MissingCostFailsFast ==
    pc = "done" => \A n \in DOMAIN portfolios : n \in DOMAIN hrly_costs

-----------------------------------------------------------------------------
(* Properties of roi. *)

Processed(ledger) == {k \in 1..Len(ledger) : ledger[k].na = {}}

\* C4: owed starts at overhead; each processed day first multiplies it by
\* (1 + r) and records that as the day's owed, then takes the first case
\* that applies: inflow < 0 (no payment, the inflow is the cash flow, the
\* balance grows by the shortfall); inflow <= owed (the inflow is paid, no
\* cash flow); owed > 0 (the balance is paid off, the rest is cash flow);
\* else owed is 0 (no payment, the inflow is the cash flow, owed unchanged).
\* Overhead 225000 at rate 0.05 with a first day of -9250 gives 236250, 0,
\* -9250 and a balance of 245500.
C4_DayTransition ==
    /\ (rpc = "loop" /\ day = FirstDay) => owed = RInt(overhead)
    /\ [][day' = day + 1 =>
            LET begin == RMul(owed, RAdd(One, r))
                inflow == RInt(f[day].profit)
                row == f'[day]
            IN /\ row.na = {}
               /\ row.owed = begin
               /\ IF RLt(inflow, Zero)
                  THEN /\ row.payment = Zero
                       /\ row.cash_flow = inflow
                       /\ owed' = RSub(begin, inflow)
                  ELSE IF RLe(inflow, begin)
                  THEN /\ row.payment = inflow
                       /\ row.cash_flow = Zero
                       /\ owed' = RSub(begin, inflow)
                  ELSE IF RLt(Zero, begin)
                  THEN /\ row.payment = begin
                       /\ row.cash_flow = RSub(inflow, begin)
                       /\ owed' = Zero
                  ELSE /\ begin = Zero
                       /\ row.payment = Zero
                       /\ row.cash_flow = inflow
                       /\ owed' = begin
               /\ (/\ overhead = 225000
                   /\ r = Frac(5, 100)
                   /\ day = 1
                   /\ f[1].profit = -9250)
                  => /\ row.owed = RInt(236250)
                     /\ row.payment = Zero
                     /\ row.cash_flow = RInt(-9250)
                     /\ owed' = RInt(245500)
       ]_vars

\* A returned ledger in which each of the four cases was taken on some day.
C4_Witness ==
    /\ rpc = "done"
    /\ \E a, b, c, e \in Processed(f) :
          /\ f[a].profit < 0 /\ f[a].payment = Zero
          /\ f[b].profit > 0 /\ f[b].payment = RInt(f[b].profit)
          /\ RLt(Zero, f[c].payment) /\ RLt(Zero, f[c].cash_flow)
          /\ f[e].profit > 0 /\ f[e].owed = Zero
             /\ f[e].cash_flow = RInt(f[e].profit)

\* C5: for a series of days 1..N, roi makes exactly N day transitions, one
\* per day of the series, and stops: every day of the returned ledger has
\* owed, payment and cash_flow set, and no day outside 1..N is read.
C5_OneTransitionPerDay ==
    /\ rpc # "IndexError"
    /\ rpc = "done" =>
          /\ day - FirstDay = Len(f)
          /\ Processed(f) = 1..Len(f)

\* C9: with overhead >= 0 and r >= 0, every ledger entry that roi writes has
\* owed >= 0 and 0 <= payment <= owed, and the running balance is >= 0.
C9_BalanceAndPaymentBounds ==
    /\ RLe(Zero, owed)
    /\ \A k \in Processed(f) :
          /\ RLe(Zero, f[k].owed)
          /\ RLe(Zero, f[k].payment)
          /\ RLe(f[k].payment, f[k].owed)

\* A returned ledger with a day of shortfall, a day of part payment and a
\* day on which the whole balance was paid.
C9_Witness ==
    /\ rpc = "done"
    /\ \E a, b, c \in Processed(f) :
          /\ f[a].profit < 0
          /\ RLt(Zero, f[b].payment) /\ RLt(f[b].payment, f[b].owed)
          /\ RLt(Zero, f[c].payment) /\ f[c].payment = f[c].owed

====
